---- MODULE Spec2Model ----
(***************************************************************************)
(* Model of the EmailWatcher of src/src/emailWatcher.ts: one watcher, its  *)
(* connection handle, its reconnect and keepalive timers, and the async    *)
(* handlers (startWatching, the reconnect timer callback, the 'mail'       *)
(* handler, the keepalive tick) interleaved at their await points.         *)
(* A step of the model is one run-to-completion turn of the event loop:    *)
(* from the resumption of a handler at an I/O await to its next I/O await. *)
(* Connection objects, timeout handles and interval handles are small      *)
(* integers, 0 standing for null; the fields of the class keep their       *)
(* names.  Spec is the connection lifecycle with every outcome of every    *)
(* await, SpecReconnect the same lifecycle of a watcher nobody stops;      *)
(* SpecMail is the 'mail' handler inside a lifecycle whose                 *)
(* connect() attempts succeed, every invocation a position; SpecScan is    *)
(* one invocation of the 'mail' handler with its local variables, message  *)
(* by message; SpecStore is the accounts file shared by the watchers of    *)
(* startEmailWatchersFromConfig(); SpecFolders is moveToSpamFolder().      *)
(* Instants are integers, 0 being the epoch; a Dayjs | null field is the   *)
(* empty set or a singleton.                                               *)
(***************************************************************************)
EXTENDS Integers, FiniteSets, Sequences, TLC

\* ---- bounds of the model ------------------------------------------------
MaxConns == 2        \* transport connections alive at the same time
MaxTimers == 2       \* reconnect timeouts armed or running at the same time
MaxIntervals == 2    \* keepalive intervals alive at the same time
MaxStarts == 1       \* startWatching() calls in progress at the same time
MaxHandlers == 2     \* 'mail' handlers in progress at the same time
MaxTicks == 1        \* keepalive ticks awaiting openBox at the same time
MaxScans == 2        \* backfill scans counted on one connection
MaxAccounts == 2     \* account records in the accounts file
MaxClock == 2        \* the latest instant the clock reaches
MaxMsgs == 2         \* messages in one search or fetch result
MaxTop == 2          \* top-level folders of a mailbox tree
MaxChildren == 1     \* folders below one top-level folder

\* ---- program constants --------------------------------------------------
maxReconnectAttempts == 5

Conns == 1..MaxConns
Timers == 1..MaxTimers
Intervals == 1..MaxIntervals
HandlerPcs == {"total", "bfOpen", "bfSearch", "bfLoop", "liveFetch", "liveLoop"}

\* Instants a message can be dated at: -1 is before the epoch.
Dates == (0 - 1)..MaxClock

\* What the file system and JSON.parse can answer to one updateAnalyzedUntil().
IoOutcomes == {"ok", "readFails", "parseFails", "notArray", "writeFails"}

VARIABLES
  connection,        \* this.connection: 0 is null, else a connection id
  isWatching,        \* this.isWatching
  isReconnecting,    \* this.isReconnecting
  reconnectAttempts, \* this.reconnectAttempts
  reconnectTimer,    \* this.reconnectTimer: 0 is null, else a timeout handle
  keepAliveTimer,    \* this.keepAliveTimer: 0 is null, else an interval handle
  isBackfilling,     \* this.isBackfilling
  connState,         \* transport state of each connection object
  listeners,         \* whether the watcher's mail/error/close listeners are attached
  boxOpen,           \* whether INBOX has been opened on the connection held
  timer,             \* per timeout handle: armed, or its callback's position
  intervals,         \* interval handles that have not been cleared
  start,             \* startWatching() calls in progress: how many await
                     \* imaps.connect, and the connections whose openBox the others await
  handler,           \* per position: the number of 'mail' handler invocations there
  kaPending,         \* keepalive ticks awaiting their openBox
  stopped,           \* history: stopWatching() returned, no startWatching() since
  sinceConnect,      \* history: reconnect timers scheduled since the last successful connect()
  failedAttempts,    \* history: consecutive failed reconnect attempts
  scans,             \* history: backfill scans begun since this.connection was last stored
  now,               \* the clock read by dayjs()
  watchers,          \* per watcher, the readonly fields set by the constructor
  emailsAnalyzedUntil, \* per watcher, this.emailsAnalyzedUntil
  file,              \* the accounts file: the account records in order
  attempt,           \* history: the last updateAnalyzedUntil() that went to the file
  unit,              \* the local variables of the one 'mail' handler invocation followed
  boxes,             \* the mailbox tree of the server, which getBoxes() answers
  target             \* moveToSpamFolder()'s target: empty until resolved

vars == <<connection, isWatching, isReconnecting, reconnectAttempts,
          reconnectTimer, keepAliveTimer, isBackfilling, connState, listeners,
          boxOpen, timer, intervals, start, handler, kaPending, stopped,
          sinceConnect, failedAttempts, scans, now, watchers,
          emailsAnalyzedUntil, file, attempt, unit, boxes, target>>

\* The whole state as one record, so that the synchronous methods of the
\* class compose as functions from state to state.
Cur ==
  [connection |-> connection, isWatching |-> isWatching,
   isReconnecting |-> isReconnecting, reconnectAttempts |-> reconnectAttempts,
   reconnectTimer |-> reconnectTimer, keepAliveTimer |-> keepAliveTimer,
   isBackfilling |-> isBackfilling, connState |-> connState,
   listeners |-> listeners, boxOpen |-> boxOpen, timer |-> timer,
   intervals |-> intervals, start |-> start, handler |-> handler,
   kaPending |-> kaPending, stopped |-> stopped, sinceConnect |-> sinceConnect,
   failedAttempts |-> failedAttempts, scans |-> scans,
   emailsAnalyzedUntil |-> emailsAnalyzedUntil, file |-> file,
   attempt |-> attempt, unit |-> unit, ok |-> TRUE]

Min(S) == CHOOSE x \in S : \A y \in S : x <= y

IdleTask == [pc |-> "idle", conn |-> 0]

\* Connection objects something still refers to.
Referenced(s) ==
  {s.connection}
    \cup s.start.opening
    \cup {s.timer[t].conn : t \in Timers}

\* A closed connection object nothing refers to is garbage: its id is reused.
Collect(s) ==
  LET dead == {c \in Conns : s.connState[c] = "disconnected" /\ c \notin Referenced(s)}
  IN [s EXCEPT !.connState = [c \in Conns |-> IF c \in dead THEN "free" ELSE @[c]],
               !.listeners = [c \in Conns |-> IF c \in dead THEN FALSE ELSE @[c]]]

Commit(s0) ==
  \E s \in {Collect(s0)} :
  /\ s.ok
  /\ connection' = s.connection
  /\ isWatching' = s.isWatching
  /\ isReconnecting' = s.isReconnecting
  /\ reconnectAttempts' = s.reconnectAttempts
  /\ reconnectTimer' = s.reconnectTimer
  /\ keepAliveTimer' = s.keepAliveTimer
  /\ isBackfilling' = s.isBackfilling
  /\ connState' = s.connState
  /\ listeners' = s.listeners
  /\ boxOpen' = s.boxOpen
  /\ timer' = s.timer
  /\ intervals' = s.intervals
  /\ start' = s.start
  /\ handler' = s.handler
  /\ kaPending' = s.kaPending
  /\ stopped' = s.stopped
  /\ sinceConnect' = s.sinceConnect
  /\ failedAttempts' = s.failedAttempts
  /\ scans' = s.scans
  /\ emailsAnalyzedUntil' = s.emailsAnalyzedUntil
  /\ file' = s.file
  /\ attempt' = s.attempt
  /\ unit' = s.unit
  /\ UNCHANGED <<now, watchers, boxes, target>>

\* What became of one message of a batch or scan: the date it was compared
\* by, the probability the classifier answered, whether the classifier
\* failed, and the outcome.
NoEntry == [date |-> 0, prob |-> 0, failed |-> FALSE, result |-> "none"]

\* No invocation of the 'mail' handler is followed.  Of an invocation: its
\* position, its branch, the lower bound it captured (absent: the field was
\* null), the size of its search or fetch result, the number of messages
\* its loop has gone through, whether one of them failed, and the last one.
IdleUnit ==
  [pc |-> "idle", kind |-> "none", lowerBound |-> 0, absent |-> FALSE,
   n |-> 0, i |-> 0, failed |-> FALSE, last |-> NoEntry]

NoAttempt == [w |-> 0, date |-> 0, io |-> "ok"]

\* The fields of a freshly constructed EmailWatcher.
InitWatcher ==
  /\ connection = 0
  /\ isWatching = FALSE
  /\ keepAliveTimer = 0
  /\ connState = [c \in Conns |-> "free"]
  /\ listeners = [c \in Conns |-> FALSE]
  /\ boxOpen = FALSE
  /\ intervals = {}

\* What neither the constructor nor a first successful startWatching()
\* leaves different: no reconnect, no handler in progress, the clock at 1.
InitIdle ==
  /\ isReconnecting = FALSE
  /\ reconnectAttempts = 0
  /\ reconnectTimer = 0
  /\ timer = [t \in Timers |-> IdleTask]
  /\ start = [connecting |-> 0, opening |-> {}]
  /\ handler = [p \in HandlerPcs |-> 0]
  /\ kaPending = 0
  /\ stopped = FALSE
  /\ sinceConnect = 0
  /\ failedAttempts = 0
  /\ isBackfilling = FALSE
  /\ scans = 0
  /\ attempt = NoAttempt
  /\ unit = IdleUnit
  /\ now = 1
  /\ target = <<>>

\* startEmailWatcher(): one watcher built by new EmailWatcher(), without
\* configPath, accountUser, label or emailsAnalyzedUntil; the threshold is
\* the default.
Init ==
  /\ InitWatcher /\ InitIdle
  /\ watchers = <<[configPath |-> FALSE, accountUser |-> "", label |-> "",
                   scamThreshold |-> 80]>>
  /\ emailsAnalyzedUntil = <<{}>>
  /\ file = <<>>
  /\ boxes = <<>>

\* ---- synchronous methods of EmailWatcher --------------------------------

FreeIntervals(s) == Intervals \ s.intervals
FreeTimers(s) == {t \in Timers : s.timer[t].pc = "idle"}
FreeConns(s) == {c \in Conns : s.connState[c] = "free"}

\* stopKeepAlive(): clearInterval on the handle held, if any.
stopKeepAlive(s) ==
  IF s.keepAliveTimer # 0
  THEN [s EXCEPT !.intervals = @ \ {s.keepAliveTimer}, !.keepAliveTimer = 0]
  ELSE s

\* Mutant of startKeepAlive(): the prior interval is not cancelled.
startKeepAlive_noCancel(s) ==
  LET t == s IN
  IF t.connection = 0 THEN t
  ELSE IF FreeIntervals(t) = {} THEN [t EXCEPT !.ok = FALSE]
  ELSE LET id == Min(FreeIntervals(t)) IN
       [t EXCEPT !.keepAliveTimer = id, !.intervals = @ \cup {id}]

\* startKeepAlive(): cancel the prior interval, then create one if a
\* connection handle is held.
startKeepAlive(s) ==
  LET t == stopKeepAlive(s) IN
  IF t.connection = 0 THEN t
  ELSE IF FreeIntervals(t) = {} THEN [t EXCEPT !.ok = FALSE]
  ELSE LET id == Min(FreeIntervals(t)) IN
       [t EXCEPT !.keepAliveTimer = id, !.intervals = @ \cup {id}]

\* cleanupConnection(): removeAllListeners, end(), release the handle, stop
\* the keepalive.
cleanupConnection(s) ==
  stopKeepAlive(
    IF s.connection # 0
    THEN [s EXCEPT !.listeners[s.connection] = FALSE,
                   !.connState[s.connection] = "disconnected",
                   !.boxOpen = FALSE,
                   !.connection = 0]
    ELSE s)

\* Mutant of scheduleReconnection(): the attempt bound is not tested.
scheduleReconnection_noBound(s) ==
  IF s.isReconnecting THEN s
  ELSE IF FreeTimers(s) = {} THEN [s EXCEPT !.ok = FALSE]
  ELSE LET id == Min(FreeTimers(s)) IN
       [s EXCEPT !.isReconnecting = TRUE,
                 !.reconnectAttempts = @ + 1,
                 !.reconnectTimer = id,
                 !.timer[id] = [pc |-> "armed", conn |-> 0],
                 !.sinceConnect = @ + 1]

\* Mutant of scheduleReconnection(): isReconnecting is not tested.
scheduleReconnection_noFlag(s) ==
  IF s.reconnectAttempts >= maxReconnectAttempts THEN s
  ELSE IF FreeTimers(s) = {} THEN [s EXCEPT !.ok = FALSE]
  ELSE LET id == Min(FreeTimers(s)) IN
       [s EXCEPT !.isReconnecting = TRUE,
                 !.reconnectAttempts = @ + 1,
                 !.reconnectTimer = id,
                 !.timer[id] = [pc |-> "armed", conn |-> 0],
                 !.sinceConnect = @ + 1]

\* scheduleReconnection(): guarded by isReconnecting and by the attempt
\* bound; otherwise arm a timeout whose callback runs connect().
scheduleReconnection(s) ==
  IF s.isReconnecting \/ s.reconnectAttempts >= maxReconnectAttempts THEN s
  ELSE IF FreeTimers(s) = {} THEN [s EXCEPT !.ok = FALSE]
  ELSE LET id == Min(FreeTimers(s)) IN
       [s EXCEPT !.isReconnecting = TRUE,
                 !.reconnectAttempts = @ + 1,
                 !.reconnectTimer = id,
                 !.timer[id] = [pc |-> "armed", conn |-> 0],
                 !.sinceConnect = @ + 1]

\* handleConnectionError()
handleConnectionError(s) ==
  IF s.isReconnecting THEN s
  ELSE scheduleReconnection(cleanupConnection(s))

\* clearTimeout(handle): cancels the timeout if it has not fired yet.
clearTimeout(s, id) ==
  IF id # 0 /\ s.timer[id].pc = "armed"
  THEN [s EXCEPT !.timer[id] = IdleTask]
  ELSE s

\* stopWatching()
stopWatching(s) ==
  LET a == [s EXCEPT !.isWatching = FALSE]
      b == IF a.reconnectTimer # 0
           THEN [clearTimeout(a, a.reconnectTimer) EXCEPT !.reconnectTimer = 0]
           ELSE a
  IN [cleanupConnection(b) EXCEPT !.stopped = TRUE]

\* connect(), first part: imaps.connect resolved with connection object c;
\* the handle is stored and setupConnectionHandlers() attaches the
\* listeners; openBox is awaited next.
connectStored(s, c) ==
  [s EXCEPT !.connection = c,
            !.connState[c] = "authenticated",
            !.listeners[c] = TRUE,
            !.boxOpen = FALSE,
            !.scans = 0]

\* The index Array.findIndex answers in updateAnalyzedUntil(): the first
\* record whose user is the watcher's accountUser or whose label is the
\* watcher's label; 0 stands for -1.
findIndex(data, w) ==
  LET hits == {i \in 1..Len(data) :
                 \/ (watchers[w].accountUser # "" /\ data[i].user = watchers[w].accountUser)
                 \/ (watchers[w].label # "" /\ data[i].label = watchers[w].label)}
  IN IF hits = {} THEN 0 ELSE Min(hits)

\* updateAnalyzedUntil(date): returns at once without configPath; reads and
\* parses the file, finds the record, writes the whole file back and only
\* then stores the date in the field.  Every failure is caught and logged.
updateAnalyzedUntil(s, w, date, io) ==
  IF ~watchers[w].configPath THEN s
  ELSE LET a == [s EXCEPT !.attempt = [w |-> w, date |-> date, io |-> io]]
            idx == findIndex(s.file, w)
       IN IF io \in {"readFails", "parseFails", "notArray"} THEN a
          ELSE IF idx = 0 THEN a
          ELSE IF io = "writeFails" THEN a
          ELSE [a EXCEPT !.file[idx].emailsAnalyzedUntil = {date},
                         !.emailsAnalyzedUntil[w] = {date}]

\* Mutant of connect(): the attempt counter is not reset on success.
connectOpened_noReset(s, c) ==
  LET a == startKeepAlive([s EXCEPT !.boxOpen = (@ \/ c = s.connection)]) IN
  [a EXCEPT !.sinceConnect = 0, !.failedAttempts = 0]

\* connect(), last part: openBox resolved; startKeepAlive() and the reset of
\* the attempt counter.
connectOpened(s, c) ==
  LET a == startKeepAlive([s EXCEPT !.boxOpen = (@ \/ c = s.connection)]) IN
  [a EXCEPT !.reconnectAttempts = 0, !.sinceConnect = 0, !.failedAttempts = 0]

\* ---- startWatching() ----------------------------------------------------

StartsRunning == start.connecting + Cardinality(start.opening)

\* startWatching() is called: returns at once if isWatching, else calls
\* connect() and awaits imaps.connect.
StartWatching ==
  /\ StartsRunning < MaxStarts
  /\ \E s \in {[Cur EXCEPT !.stopped = FALSE]} :
       IF isWatching
       THEN Commit(s)
       ELSE Commit([s EXCEPT !.start.connecting = @ + 1])

\* The catch block of startWatching().
startCatch(s, err) ==
  LET a == [s EXCEPT !.isWatching = FALSE] IN
  IF err = "auth" THEN stopWatching(a) ELSE scheduleReconnection(a)

\* imaps.connect resolved inside startWatching()'s connect().
StartConnected ==
  /\ start.connecting > 0
  /\ FreeConns(Cur) # {}
  /\ \E c \in {Min(FreeConns(Cur))} :
       Commit([connectStored(Cur, c) EXCEPT !.start.connecting = @ - 1,
                                            !.start.opening = @ \cup {c}])

\* imaps.connect rejected inside startWatching()'s connect().
StartConnectFailed(err) ==
  /\ start.connecting > 0
  /\ Commit(startCatch([Cur EXCEPT !.start.connecting = @ - 1], err))

\* openBox resolved inside startWatching()'s connect(): connect() returns
\* and startWatching() sets isWatching.
StartOpened(c) ==
  /\ c \in start.opening
  /\ connState[c] = "authenticated"
  /\ Commit([connectOpened([Cur EXCEPT !.start.opening = @ \ {c}], c)
               EXCEPT !.isWatching = TRUE])

\* openBox rejected inside startWatching()'s connect().
StartOpenFailed(c) ==
  /\ c \in start.opening
  /\ Commit(startCatch([Cur EXCEPT !.start.opening = @ \ {c}], "other"))

\* ---- the reconnect timer callback ---------------------------------------

\* The timeout fires: the callback calls connect() and awaits imaps.connect.
TimerFired(t) ==
  /\ timer[t].pc = "armed"
  /\ Commit([Cur EXCEPT !.timer[t] = [pc |-> "connecting", conn |-> 0]])

\* The catch block of the timer callback: the error's code is not inspected.
timerCatch(s, t, err) ==
  scheduleReconnection([s EXCEPT !.isReconnecting = FALSE,
                                 !.timer[t] = IdleTask,
                                 !.failedAttempts = @ + 1])

TimerConnected(t) ==
  /\ timer[t].pc = "connecting"
  /\ FreeConns(Cur) # {}
  /\ \E c \in {Min(FreeConns(Cur))} :
       Commit([connectStored(Cur, c) EXCEPT !.timer[t] = [pc |-> "opening", conn |-> c]])

TimerConnectFailed(t, err) ==
  /\ timer[t].pc = "connecting"
  /\ Commit(timerCatch(Cur, t, err))

\* openBox resolved inside the callback's connect(): connect() returns and
\* the callback clears isReconnecting.
TimerOpened(t) ==
  /\ timer[t].pc = "opening"
  /\ connState[timer[t].conn] = "authenticated"
  /\ Commit([connectOpened(Cur, timer[t].conn) EXCEPT
               !.isReconnecting = FALSE, !.timer[t] = IdleTask])

TimerOpenFailed(t) ==
  /\ timer[t].pc = "opening"
  /\ Commit(timerCatch(Cur, t, "other"))

\* ---- stopWatching() -----------------------------------------------------

StopWatching ==
  \E s \in {stopWatching(Cur)} : Commit(s)

\* ---- transport events ---------------------------------------------------

\* An event reaches the watcher only through listeners attached to a
\* connection that is still open.
Emits(c) == listeners[c] /\ connState[c] = "authenticated"

\* 'error' listener.
TransportError(c) ==
  /\ Emits(c)
  /\ Commit(handleConnectionError(Cur))

\* 'close' listener: the transport is closed; handleConnectionError() is
\* called only if hadError.
TransportClose(c, hadError) ==
  /\ Emits(c)
  /\ \E a \in {[Cur EXCEPT !.connState[c] = "disconnected",
                            !.boxOpen = (@ /\ c # connection)]} :
       IF hadError THEN Commit(handleConnectionError(a)) ELSE Commit(a)

\* ---- keepalive tick -----------------------------------------------------

\* The interval callback: openBox is issued only on a held, authenticated
\* connection.
KeepAliveTick ==
  /\ intervals # {}
  /\ kaPending < MaxTicks
  /\ connection # 0 /\ connState[connection] = "authenticated"
  /\ Commit([Cur EXCEPT !.kaPending = @ + 1])

KeepAliveOk ==
  /\ kaPending > 0
  /\ Commit([Cur EXCEPT !.kaPending = @ - 1])

\* The tick's openBox rejected: the catch block calls handleConnectionError().
KeepAliveFailed ==
  /\ kaPending > 0
  /\ Commit(handleConnectionError([Cur EXCEPT !.kaPending = @ - 1]))

\* ---- the 'mail' handler -------------------------------------------------

Running(s) == s.handler["total"] + s.handler["bfOpen"] + s.handler["bfSearch"]
                + s.handler["bfLoop"] + s.handler["liveFetch"] + s.handler["liveLoop"]

\* A handler invocation moves from one await to the next, or returns.
Leave(s, p) == [s EXCEPT !.handler[p] = @ - 1]
Move(s, p, q) == [s EXCEPT !.handler[p] = @ - 1, !.handler[q] = @ + 1]

\* An I/O call of a handler can only resolve while a transport is open.
SomeOpen == \E c \in Conns : connState[c] = "authenticated"

\* The end of the backfill branch: the finally block clears isBackfilling.
backfillFinally(s, p) ==
  [Leave(s, p) EXCEPT !.isBackfilling = FALSE]

\* The backfill branch, entered when the notified count equals the total:
\* the try block tests and sets isBackfilling and calls
\* processHistoricalEmails(), which returns at once without a connection
\* handle and otherwise awaits openBox; updateAnalyzedUntil(dayjs()) follows
\* its return; the finally block runs on every path.
backfillBranch(s, io) ==
  IF ~s.isBackfilling
  THEN LET a == [s EXCEPT !.isBackfilling = TRUE] IN
       IF a.connection = 0
       THEN backfillFinally(updateAnalyzedUntil(a, 1, now, io), "total")
       ELSE Move([a EXCEPT !.scans = IF @ < MaxScans THEN @ + 1 ELSE @],
                 "total", "bfOpen")
  ELSE backfillFinally(s, "total")

\* The live branch: onNewMails() returns at once without a connection
\* handle, and updateAnalyzedUntil(dayjs()) follows; otherwise it awaits
\* fetchEmailsBatch().
liveBranch(s, io) ==
  IF s.connection = 0
  THEN Leave(updateAnalyzedUntil(s, 1, now, io), "total")
  ELSE Move(s, "total", "liveFetch")

\* A 'mail' notification is dispatched: the handler returns without a
\* connection handle, else awaits getTotalMessages(this.connection).
MailEvent(c) ==
  /\ Emits(c)
  /\ Running(Cur) < MaxHandlers
  /\ connection # 0
  /\ Commit([Cur EXCEPT !.handler["total"] = @ + 1])

\* getTotalMessages resolved; initial says whether the total equals the
\* notified count.
MailTotal(initial) ==
  /\ handler["total"] > 0
  /\ SomeOpen
  /\ \E io \in IoOutcomes :
       Commit(IF initial THEN backfillBranch(Cur, io) ELSE liveBranch(Cur, io))

\* getTotalMessages rejected: the await is outside every try block.
MailTotalFailed ==
  /\ handler["total"] > 0
  /\ Commit(Leave(Cur, "total"))

\* processHistoricalEmails(): openBox resolved; search is issued on
\* this.connection, which throws if the handle was released meanwhile.
BackfillOpened ==
  /\ handler["bfOpen"] > 0
  /\ SomeOpen
  /\ IF connection = 0
     THEN Commit(backfillFinally(Cur, "bfOpen"))
     ELSE Commit(Move(Cur, "bfOpen", "bfSearch"))

\* processHistoricalEmails(): search resolved; empty says whether the result
\* has no message.
BackfillSearched(empty) ==
  /\ handler["bfSearch"] > 0
  /\ SomeOpen
  /\ IF empty
     THEN \E io \in IoOutcomes :
            Commit(backfillFinally(updateAnalyzedUntil(Cur, 1, now, io), "bfSearch"))
     ELSE Commit(Move(Cur, "bfSearch", "bfLoop"))

\* processHistoricalEmails(): the message loop ran to its end, every
\* iteration completing or ending in its catch block;
\* updateAnalyzedUntil(dayjs()) and the finally block follow.
BackfillDone ==
  /\ handler["bfLoop"] > 0
  /\ \E io \in IoOutcomes :
       Commit(backfillFinally(updateAnalyzedUntil(Cur, 1, now, io), "bfLoop"))

\* processHistoricalEmails(): openBox or search rejected; the handler's
\* catch and finally blocks run.
BackfillFailed(p) ==
  /\ handler[p] > 0
  /\ Commit(backfillFinally(Cur, p))

\* onNewMails(): fetchEmailsBatch resolved; empty says whether the batch has
\* no message.
LiveFetched(empty) ==
  /\ handler["liveFetch"] > 0
  /\ SomeOpen
  /\ IF empty
     THEN \E io \in IoOutcomes :
            Commit(Leave(updateAnalyzedUntil(Cur, 1, now, io), "liveFetch"))
     ELSE Commit(Move(Cur, "liveFetch", "liveLoop"))

\* onNewMails(): the message loop ran to its end;
\* updateAnalyzedUntil(dayjs()) follows.
LiveDone ==
  /\ handler["liveLoop"] > 0
  /\ \E io \in IoOutcomes :
       Commit(Leave(updateAnalyzedUntil(Cur, 1, now, io), "liveLoop"))

\* onNewMails(): fetchEmailsBatch rejected, or moveToSpamFolder rejected
\* inside the loop; the handler's catch block runs.
LiveFailed(p) ==
  /\ handler[p] > 0
  /\ Commit(Leave(Cur, p))

\* ---- specifications -----------------------------------------------------

\* The connection lifecycle: startWatching(), stopWatching(), the reconnect
\* timer, the keepalive tick and the transport's error and close events,
\* with every outcome of every await.  The 'mail' handler is left out here:
\* it reads this.connection and writes only isBackfilling.
Next ==
  \/ StartWatching
  \/ StartConnected
  \/ \E err \in {"auth", "net"} : StartConnectFailed(err)
  \/ \E c \in Conns : StartOpened(c)
  \/ \E c \in Conns : StartOpenFailed(c)
  \/ \E t \in Timers : TimerFired(t)
  \/ \E t \in Timers : TimerConnected(t)
  \/ \E t \in Timers, err \in {"auth", "net"} : TimerConnectFailed(t, err)
  \/ \E t \in Timers : TimerOpened(t)
  \/ \E t \in Timers : TimerOpenFailed(t)
  \/ StopWatching
  \/ \E c \in Conns : TransportError(c)
  \/ \E c \in Conns, hadError \in BOOLEAN : TransportClose(c, hadError)
  \/ KeepAliveTick
  \/ KeepAliveOk
  \/ KeepAliveFailed

Spec == Init /\ [][Next]_vars

\* The connection lifecycle of a watcher nobody stops: every action of Next
\* but the call of stopWatching().
NextReconnect ==
  \/ StartWatching
  \/ StartConnected
  \/ \E err \in {"auth", "net"} : StartConnectFailed(err)
  \/ \E c \in Conns : StartOpened(c)
  \/ \E c \in Conns : StartOpenFailed(c)
  \/ \E t \in Timers : TimerFired(t)
  \/ \E t \in Timers : TimerConnected(t)
  \/ \E t \in Timers, err \in {"auth", "net"} : TimerConnectFailed(t, err)
  \/ \E t \in Timers : TimerOpened(t)
  \/ \E t \in Timers : TimerOpenFailed(t)
  \/ \E c \in Conns : TransportError(c)
  \/ \E c \in Conns, hadError \in BOOLEAN : TransportClose(c, hadError)
  \/ KeepAliveTick
  \/ KeepAliveOk
  \/ KeepAliveFailed

SpecReconnect == Init /\ [][NextReconnect]_vars

\* The 'mail' handler, interleaved at its awaits with other 'mail'
\* notifications and with a lifecycle whose connect() attempts succeed:
\* start, stop, transport error and close, and the reconnect that follows.
NextMail ==
  \/ StartWatching
  \/ StartConnected
  \/ \E c \in Conns : StartOpened(c)
  \/ \E t \in Timers : TimerFired(t)
  \/ \E t \in Timers : TimerConnected(t)
  \/ \E t \in Timers : TimerOpened(t)
  \/ StopWatching
  \/ \E c \in Conns : TransportError(c)
  \/ \E c \in Conns, hadError \in BOOLEAN : TransportClose(c, hadError)
  \/ \E c \in Conns : MailEvent(c)
  \/ \E initial \in BOOLEAN : MailTotal(initial)
  \/ MailTotalFailed
  \/ BackfillOpened
  \/ \E empty \in BOOLEAN : BackfillSearched(empty)
  \/ BackfillDone
  \/ \E p \in {"bfOpen", "bfSearch"} : BackfillFailed(p)
  \/ \E empty \in BOOLEAN : LiveFetched(empty)
  \/ LiveDone
  \/ \E p \in {"liveFetch", "liveLoop"} : LiveFailed(p)

SpecMail == Init /\ [][NextMail]_vars

\* ---- the accounts file shared by the watchers ---------------------------

\* The users of the account records, in the order of the file.
UserNames == <<"a", "b", "c", "d">>

\* Labels an account record can carry: none, the user of the second
\* account, or a label of its own.
LabelsIn == {"", "b", "x"}

\* An accounts file: one record per user, each with an optional label and
\* an optional emailsAnalyzedUntil not later than the present.
AccountFiles ==
  {f \in [1..MaxAccounts -> [user : {UserNames[i] : i \in 1..MaxAccounts},
                              label : LabelsIn,
                              emailsAnalyzedUntil : {{}, {0}}]] :
     \A i \in 1..MaxAccounts : f[i].user = UserNames[i]}

\* new EmailWatcher({...}) in startEmailWatchersFromConfig(): label is the
\* record's label or else its user, accountUser its user.
Construct(acc, threshold) ==
  [configPath |-> TRUE, accountUser |-> acc.user,
   label |-> IF acc.label # "" THEN acc.label ELSE acc.user,
   scamThreshold |-> threshold]

\* startEmailWatchersFromConfig(): one watcher per record of the file.
InitStore ==
  /\ InitWatcher /\ InitIdle
  /\ file \in AccountFiles
  /\ watchers = [i \in 1..MaxAccounts |-> Construct(file[i], 80)]
  /\ emailsAnalyzedUntil = [i \in 1..MaxAccounts |-> file[i].emailsAnalyzedUntil]
  /\ boxes = <<>>

\* Time passes.
Tick ==
  /\ now < MaxClock
  /\ now' = now + 1
  /\ UNCHANGED <<connection, isWatching, isReconnecting, reconnectAttempts,
                 reconnectTimer, keepAliveTimer, isBackfilling, connState,
                 listeners, boxOpen, timer, intervals, start, handler,
                 kaPending, stopped, sinceConnect, failedAttempts, scans,
                 watchers, emailsAnalyzedUntil, file, attempt, unit, boxes,
                 target>>

\* The 'mail' handler of watcher w reaches the end of its batch or scan:
\* await this.updateAnalyzedUntil(dayjs()), which runs to its end without
\* yielding (it awaits nothing).
UnitCompleted(w, io) ==
  \E s \in {updateAnalyzedUntil(Cur, w, now, io)} : Commit(s)

NextStore ==
  \/ Tick
  \/ \E w \in 1..MaxAccounts, io \in IoOutcomes : UnitCompleted(w, io)

SpecStore == InitStore /\ [][NextStore]_vars

\* ---- one invocation of the 'mail' handler, message by message -----------

Probabilities == {50, 80, 92}
Thresholds == {50, 80}

\* A message of a search or fetch result, as the handler will find it:
\* whether it has the full-body part, whether simpleParser accepts it, the
\* date of its header (none, or an instant), the probability the classifier
\* answers unless it fails, and whether moveToSpamFolder's calls succeed.
\* What the handler never looks at is left at one value: nothing of a
\* message without the part or unparseable, no answer of a classifier that
\* fails, no move of a message the classifier did not answer for.
Messages ==
  {m \in [body : BOOLEAN, parses : BOOLEAN,
          date : {{}} \cup {{d} : d \in Dates},
          answered : Probabilities, fails : BOOLEAN, moves : BOOLEAN] :
     /\ (~m.body => m.parses)
     /\ (~(m.body /\ m.parses) => m.date = {} /\ ~m.fails)
     /\ (~(m.body /\ m.parses) \/ m.fails => m.answered = 50 /\ m.moves)}

\* The messages fetchEmailsBatch() returns: parsed, their date not consulted.
Emails == {m \in Messages : m.body /\ m.parses /\ m.date = {}}

\* isScamEmail(): the probability answered; 0 when the request or the
\* parsing of the answer throws.
isScamEmail(m) == IF m.fails THEN 0 ELSE m.answered

\* Mutant of the threshold test: strictly greater.
Relocates_strict(p, threshold) == p > threshold

\* result.scam_probability >= this.scamThreshold
Relocates(p, threshold) == p >= threshold

\* moveToSpamFolder(this.connection, uid) resolves only on a handle that is
\* held and open.
Moves(s, m) ==
  m.moves /\ s.connection # 0 /\ s.connState[s.connection] = "authenticated"

\* The file of SpecScan can be read; writing it can fail.
IoScan == {"ok", "writeFails"}

\* The classification and relocation of one message.
classified(s, m, date) ==
  LET p == isScamEmail(m) IN
  [date |-> date, prob |-> p, failed |-> m.fails,
   result |-> IF Relocates(p, watchers[1].scamThreshold)
              THEN IF Moves(s, m) THEN "moved" ELSE "moveError"
              ELSE "left"]

\* One iteration of the loop of processHistoricalEmails(): messages without
\* the full-body part are passed over, a parse failure is caught, a message
\* dated before the lower bound is skipped, the others are classified.
historicalEntry(s, m) ==
  LET emailDate == IF m.date = {} THEN now ELSE CHOOSE d \in m.date : TRUE IN
  IF ~m.body THEN [NoEntry EXCEPT !.result = "noBody"]
  ELSE IF ~m.parses THEN [NoEntry EXCEPT !.result = "parseError"]
  ELSE IF emailDate < s.unit.lowerBound
       THEN [NoEntry EXCEPT !.date = emailDate, !.result = "old"]
  ELSE classified(s, m, emailDate)

Failure(e) == e.failed \/ e.result \in {"parseError", "moveError"}

\* The loop has gone through one more message.
logged(s, e) ==
  [s EXCEPT !.unit.i = @ + 1, !.unit.last = e,
            !.unit.failed = (@ \/ Failure(e))]

\* The end of the followed invocation.
unitEnds(s, pc) == [s EXCEPT !.unit.pc = pc]

\* Mutant of the backfill branch: no finally block clears isBackfilling.
scanEnds_noFinally(s, pc) == unitEnds(s, pc)

\* The finally block of the backfill branch, then the end.
scanEnds(s, pc) == unitEnds([s EXCEPT !.isBackfilling = FALSE], pc)

\* A 'mail' notification is dispatched and its handler is followed.
UnitMailEvent(c) ==
  /\ Emits(c)
  /\ unit.pc \in {"idle", "done", "aborted", "escaped"}
  /\ connection # 0
  /\ Commit([Cur EXCEPT !.unit = [IdleUnit EXCEPT !.pc = "total"]])

\* The backfill branch of the followed invocation.
unitBackfill(s, io) ==
  IF ~s.isBackfilling
  THEN LET a == [s EXCEPT !.isBackfilling = TRUE,
                          !.unit.kind = "backfill",
                          !.unit.absent = (s.emailsAnalyzedUntil[1] = {}),
                          !.unit.lowerBound =
                             IF s.emailsAnalyzedUntil[1] = {} THEN 0
                             ELSE CHOOSE d \in s.emailsAnalyzedUntil[1] : TRUE]
       IN IF a.connection = 0
          THEN scanEnds(updateAnalyzedUntil(a, 1, now, io), "done")
          ELSE [a EXCEPT !.unit.pc = "bfOpen",
                         !.scans = IF @ < MaxScans THEN @ + 1 ELSE @]
  ELSE scanEnds([s EXCEPT !.unit.kind = "backfill"], "done")

\* The live branch of the followed invocation.
unitLive(s, io) ==
  LET a == [s EXCEPT !.unit.kind = "live"] IN
  IF a.connection = 0
  THEN unitEnds(updateAnalyzedUntil(a, 1, now, io), "done")
  ELSE [a EXCEPT !.unit.pc = "liveFetch"]

\* getTotalMessages resolved.
UnitTotal(initial, io) ==
  /\ unit.pc = "total"
  /\ SomeOpen
  /\ Commit(IF initial THEN unitBackfill(Cur, io) ELSE unitLive(Cur, io))

\* getTotalMessages resolved after the handle was released: the request
\* went out on the connection object passed to it, and end() closes the
\* transport only after the requests in flight were answered.
UnitTotalLate(initial, io) ==
  /\ unit.pc = "total"
  /\ connection = 0
  /\ Commit(IF initial THEN unitBackfill(Cur, io) ELSE unitLive(Cur, io))

\* getTotalMessages rejected: the rejection leaves the handler.
UnitTotalFailed ==
  /\ unit.pc = "total"
  /\ Commit(unitEnds(Cur, "escaped"))

\* processHistoricalEmails(): openBox resolved; search is issued on
\* this.connection, which throws if the handle was released meanwhile.
UnitOpened ==
  /\ unit.pc = "bfOpen"
  /\ SomeOpen
  /\ IF connection = 0
     THEN Commit(scanEnds(Cur, "aborted"))
     ELSE Commit([Cur EXCEPT !.unit.pc = "bfSearch"])

\* processHistoricalEmails(): search resolved with n messages.
UnitSearched(n, io) ==
  /\ unit.pc = "bfSearch"
  /\ SomeOpen
  /\ IF n = 0
     THEN Commit(scanEnds(updateAnalyzedUntil(Cur, 1, now, io), "done"))
     ELSE Commit([Cur EXCEPT !.unit.pc = "bfLoop", !.unit.n = n])

\* processHistoricalEmails(): openBox or search rejected.
UnitScanFailed ==
  /\ unit.pc \in {"bfOpen", "bfSearch"}
  /\ Commit(scanEnds(Cur, "aborted"))

\* processHistoricalEmails(): one iteration of the loop; after the last one
\* the method returns, and updateAnalyzedUntil(dayjs()) and the finally
\* block follow.
UnitHistoricalMessage(m) ==
  /\ unit.pc = "bfLoop"
  /\ \E a \in {logged(Cur, historicalEntry(Cur, m))} :
       IF a.unit.i = a.unit.n
       THEN \E io \in IoScan :
              Commit(scanEnds(updateAnalyzedUntil(a, 1, now, io), "done"))
       ELSE Commit(a)

\* onNewMails(): fetchEmailsBatch resolved with n parsed messages.
UnitFetched(n, io) ==
  /\ unit.pc = "liveFetch"
  /\ SomeOpen
  /\ IF n = 0
     THEN Commit(unitEnds(updateAnalyzedUntil(Cur, 1, now, io), "done"))
     ELSE Commit([Cur EXCEPT !.unit.pc = "liveLoop", !.unit.n = n])

\* onNewMails(): fetchEmailsBatch rejected.
UnitFetchFailed ==
  /\ unit.pc = "liveFetch"
  /\ Commit(unitEnds(Cur, "aborted"))

\* onNewMails(): one iteration of the loop; a rejection of moveToSpamFolder
\* leaves the loop and the method; after the last iteration the method
\* returns and updateAnalyzedUntil(dayjs()) follows.
UnitNewMessage(m) ==
  /\ unit.pc = "liveLoop"
  /\ \E a \in {logged(Cur, classified(Cur, m, 0))} :
       IF a.unit.last.result = "moveError"
       THEN Commit(unitEnds(a, "aborted"))
       ELSE IF a.unit.i = a.unit.n
       THEN \E io \in IoScan :
              Commit(unitEnds(updateAnalyzedUntil(a, 1, now, io), "done"))
       ELSE Commit(a)

\* The watcher after its first startWatching() has succeeded: connection 1
\* is held with its listeners attached and INBOX open, the keepalive
\* interval runs.
Started ==
  /\ connection = 1
  /\ isWatching = TRUE
  /\ keepAliveTimer = 1
  /\ connState = [c \in Conns |-> IF c = 1 THEN "authenticated" ELSE "free"]
  /\ listeners = [c \in Conns |-> c = 1]
  /\ boxOpen = TRUE
  /\ intervals = {1}

\* One watcher of startEmailWatchersFromConfig() over a file of one
\* account, once started.
InitScan ==
  /\ Started /\ InitIdle
  /\ \E d \in {{}, {1}} :
       file = <<[user |-> "a", label |-> "", emailsAnalyzedUntil |-> d]>>
  /\ \E threshold \in Thresholds : watchers = <<Construct(file[1], threshold)>>
  /\ emailsAnalyzedUntil = <<file[1].emailsAnalyzedUntil>>
  /\ boxes = <<>>

NextScan ==
  \/ Tick
  \/ StopWatching
  \/ \E c \in Conns : UnitMailEvent(c)
  \/ \E initial \in BOOLEAN, io \in IoScan : UnitTotal(initial, io)
  \/ \E initial \in BOOLEAN, io \in IoScan : UnitTotalLate(initial, io)
  \/ UnitTotalFailed
  \/ UnitOpened
  \/ \E n \in 0..MaxMsgs, io \in IoScan : UnitSearched(n, io)
  \/ UnitScanFailed
  \/ \E m \in Messages : UnitHistoricalMessage(m)
  \/ \E n \in 0..MaxMsgs, io \in IoScan : UnitFetched(n, io)
  \/ UnitFetchFailed
  \/ \E m \in Emails : UnitNewMessage(m)

SpecScan == InitScan /\ [][NextScan]_vars

\* ---- moveToSpamFolder() -------------------------------------------------

Max(S) == CHOOSE x \in S : \A y \in S : x >= y

\* Folder names a server can answer, and String.toLowerCase() on them.
FolderNames == {"Spam", "SPAM", "Junk", "INBOX"}

toLowerCase(name) ==
  CASE name = "Spam" -> "spam"
    [] name = "SPAM" -> "spam"
    [] name = "Junk" -> "junk"
    [] name = "INBOX" -> "inbox"

\* A full path is the sequence of its segments, which "/" joins.
lowerPath(path) == [i \in 1..Len(path) |-> toLowerCase(path[i])]

\* The priority list of moveToSpamFolder().
candidates ==
  << <<"spam">>, <<"junk">>, <<"junk e-mail">>, <<"bulk">>, <<"[gmail]", "spam">> >>

\* Sequences without repetition of at most k elements of S.
DistinctSeqs(S, k) ==
  UNION {{q \in [1..n -> S] : \A i, j \in 1..n : i # j => q[i] # q[j]} : n \in 0..k}

\* The trees getBoxes() can answer: top-level folders in the order of the
\* object's keys, each with its children.
Trees ==
  UNION {{t \in [1..n -> [name : FolderNames,
                          children : DistinctSeqs(FolderNames, MaxChildren)]] :
            \A i, j \in 1..n : i # j => t[i].name # t[j].name} : n \in 0..MaxTop}

\* flattenBoxes(): every folder's full path, parents before their children.
RECURSIVE flattenBoxes(_)
flattenBoxes(tree) ==
  IF tree = <<>> THEN <<>>
  ELSE LET node == Head(tree) IN
       <<<<node.name>>>>
         \o [i \in 1..Len(node.children) |-> <<node.name, node.children[i]>>]
         \o flattenBoxes(Tail(tree))

\* b.toLowerCase().endsWith("/" + cand)
endsWith(path, cand) ==
  /\ Len(path) > Len(cand)
  /\ SubSeq(lowerPath(path), Len(path) - Len(cand) + 1, Len(path)) = cand

\* lowerToOriginal.get(cand): the Map keeps the last folder of each
\* lower-cased full path.
exactMatches(all, cand) == {i \in 1..Len(all) : lowerPath(all[i]) = cand}

\* allBoxes.find(...): the first folder ending with "/" + cand.
trailingMatches(all, cand) == {i \in 1..Len(all) : endsWith(all[i], cand)}

\* The loop over the candidates from the k-th on: the first candidate with
\* an exact match or else a trailing match ends it; the empty path stands
\* for undefined.
RECURSIVE pickTarget(_, _)
pickTarget(all, k) ==
  IF k > Len(candidates) THEN <<>>
  ELSE IF exactMatches(all, candidates[k]) # {}
       THEN all[Max(exactMatches(all, candidates[k]))]
  ELSE IF trailingMatches(all, candidates[k]) # {}
       THEN all[Min(trailingMatches(all, candidates[k]))]
  ELSE pickTarget(all, k + 1)

\* Mutant of the resolution: every candidate is tried for an exact match
\* before any is tried for a trailing match.
resolveTarget_exactFirst(tree) ==
  LET all == flattenBoxes(tree)
      ex == {k \in 1..Len(candidates) : exactMatches(all, candidates[k]) # {}}
      tr == {k \in 1..Len(candidates) : trailingMatches(all, candidates[k]) # {}}
  IN IF ex # {} THEN all[Max(exactMatches(all, candidates[Min(ex)]))]
     ELSE IF tr # {} THEN all[Min(trailingMatches(all, candidates[Min(tr)]))]
     ELSE <<"Spam">>

\* The target moveToSpamFolder() moves to: the folder picked, or "Spam".
resolveTarget(tree) ==
  LET t == pickTarget(flattenBoxes(tree), 1) IN
  IF t = <<>> THEN <<"Spam">> ELSE t

\* moveToSpamFolder(), one call of it: getBoxes() resolved with the tree of
\* the server and the target is resolved from it.
MoveToSpamFolder ==
  /\ target = <<>>
  /\ target' = resolveTarget(boxes)
  /\ UNCHANGED <<connection, isWatching, isReconnecting, reconnectAttempts,
                 reconnectTimer, keepAliveTimer, isBackfilling, connState,
                 listeners, boxOpen, timer, intervals, start, handler,
                 kaPending, stopped, sinceConnect, failedAttempts, scans, now,
                 watchers, emailsAnalyzedUntil, file, attempt, unit, boxes>>

\* The watcher of Init in front of a server with any mailbox tree.
InitFolders ==
  /\ InitWatcher /\ InitIdle
  /\ watchers = <<[configPath |-> FALSE, accountUser |-> "", label |-> "",
                   scamThreshold |-> 80]>>
  /\ emailsAnalyzedUntil = <<{}>>
  /\ file = <<>>
  /\ boxes \in Trees

NextFolders == MoveToSpamFolder

SpecFolders == InitFolders /\ [][NextFolders]_vars

TypeOK ==
  /\ connection \in 0..MaxConns
  /\ reconnectAttempts \in Nat
  /\ reconnectTimer \in 0..MaxTimers
  /\ keepAliveTimer \in 0..MaxIntervals
  /\ intervals \subseteq Intervals
  /\ kaPending \in 0..MaxTicks

\* ---- claims -------------------------------------------------------------

ScansInFlight == handler["bfOpen"] + handler["bfSearch"] + handler["bfLoop"]
LiveInFlight == handler["liveFetch"] + handler["liveLoop"]
TimerPending == \E t \in Timers : timer[t].pc = "armed"
TimerRunning == \E t \in Timers : timer[t].pc \in {"connecting", "opening"}
Sessions == {c \in Conns : connState[c] = "authenticated" /\ listeners[c]}
Live == connection # 0 /\ connState[connection] = "authenticated" /\ boxOpen

\* C1: at most one backfill scan (processHistoricalEmails) is in flight at
\* any time, however many initial-announcement notifications arrive while a
\* scan is running.
C1_OneBackfillInFlight == ScansInFlight <= 1

\* C2: backfill and live processing never run concurrently: no live batch
\* (onNewMails) is being processed while a backfill scan is in flight.
C2_BackfillExcludesLive == ~(ScansInFlight > 0 /\ LiveInFlight > 0)

\* C3: at most one open transport connection carries the watcher's
\* mail/error/close listeners in every reachable state.
C3_OneSession == Cardinality(Sessions) <= 1

\* C4: the reconnect attempt counter never exceeds maxReconnectAttempts.
C4_AttemptsBounded == reconnectAttempts <= maxReconnectAttempts

\* C4 witness: the counter has reached the bound.
C4_Witness == reconnectAttempts = maxReconnectAttempts /\ TimerPending

\* C5: the attempt counter equals the number of reconnect timers scheduled
\* since the last successful connect(): a successful connect() leaves it at
\* zero and nothing else resets it.
C5_CounterCountsSchedules == reconnectAttempts = sinceConnect

\* C5 witness: a reconnect attempt has succeeded (the connection is open
\* though startWatching() never succeeded) and the counter is back to zero.
C5_Witness == Live /\ ~isWatching /\ reconnectAttempts = 0

\* C6: after five consecutive failed reconnect attempts the scheduler has
\* stopped: no timer is pending or running, and a further failure signal
\* (scheduleReconnection, handleConnectionError) arms no timer and leaves
\* the attempt counter unchanged.
C6_ExhaustionStops ==
  failedAttempts >= maxReconnectAttempts =>
    /\ ~TimerPending /\ ~TimerRunning
    /\ scheduleReconnection(Cur).timer = timer
    /\ scheduleReconnection(Cur).reconnectAttempts = reconnectAttempts
    /\ handleConnectionError(Cur).timer = timer
    /\ handleConnectionError(Cur).reconnectAttempts = reconnectAttempts

\* C7: wherever connect() fails with the authentication-failed code, in
\* startWatching() or in the reconnect timer callback, the watcher ends up
\* stopped with no reconnect timer pending.
C7_AuthFailureIsFatal ==
  [][(StartConnectFailed("auth")
        \/ (\E t \in Timers : TimerConnectFailed(t, "auth")))
       => (connection' = 0 /\ ~isWatching' /\ \A t \in Timers : timer'[t].pc # "armed")]_vars

\* C8: once stopWatching() has returned (and startWatching() has not been
\* called again) the watcher holds no connection handle, no keepalive timer
\* and no pending reconnect timer.
C8_StoppedIsTerminal ==
  stopped => /\ connection = 0
             /\ keepAliveTimer = 0 /\ intervals = {}
             /\ ~TimerPending

\* C9: a startWatching() call made while the watcher holds a live connection
\* with the mailbox open returns at once: it starts no connect().
C9_StartIsNoopWhenLive ==
  [][(Live /\ StartWatching) => start' = start]_vars

\* C10: on every transport error event and every transport close event
\* (hadError true or false), if the watcher is not reconnecting, the held
\* connection is torn down (handle released, keepalive stopped, listeners
\* detached) and a reconnection is scheduled while attempts remain.
C10_ErrorOrCloseReconnects ==
  [][(~isReconnecting
        /\ \E c \in Conns : \/ TransportError(c)
                            \/ \E hadError \in BOOLEAN : TransportClose(c, hadError))
       => /\ connection' = 0
          /\ keepAliveTimer' = 0 /\ intervals' = {}
          /\ (connection # 0 => ~listeners'[connection])
          /\ (reconnectAttempts < maxReconnectAttempts
                => \E t \in Timers : timer'[t].pc = "armed")]_vars

\* C14: a 'mail' notification whose count equals the freshly queried total
\* goes to the backfill branch and starts no live batch, every other one
\* goes to the live branch and starts no scan, and no more than one backfill
\* scan is begun while one connection is held.
C14_OneScanPerConnection ==
  [][/\ (MailTotal(TRUE) => LiveInFlight' = LiveInFlight)
     /\ (MailTotal(FALSE) => ScansInFlight' = ScansInFlight /\ scans' = scans)
     /\ scans' <= 1]_vars

TimersInUse == {t \in Timers : timer[t].pc # "idle"}
TimersArmed == {t \in Timers : timer[t].pc = "armed"}

\* C20: at most one reconnect timer is armed or running at any time, and
\* while one is armed or its callback is in progress, no step other than
\* that callback's own arms a timer or increments the attempt counter: no
\* transport error, close, keepalive failure or failed startWatching() does.
C20_OneReconnectTimer ==
  [][/\ Cardinality(TimersInUse') <= 1
     /\ (\E t \in Timers : timer[t].pc # "idle" /\ timer'[t] = timer[t])
          => /\ TimersArmed' \subseteq TimersArmed
             /\ reconnectAttempts' <= reconnectAttempts]_vars

\* C20 witness: a reconnect attempt is in progress and the connection it
\* stored was closed meanwhile, the signal having been ignored.
C20_Witness ==
  /\ isReconnecting /\ TimerRunning
  /\ connection # 0 /\ connState[connection] = "disconnected"
  /\ reconnectAttempts >= 1

Instant(d) == CHOOSE t \in d : TRUE

\* C11: after a completed batch or scan of a watcher whose
\* updateAnalyzedUntil() read and wrote the file, the persisted
\* emailsAnalyzedUntil of that watcher's account is the instant of the
\* completion, and no persisted value ever moves backward.
C11_WatermarkIsNow ==
  [][/\ (attempt'.w # 0 /\ attempt'.io = "ok"
          => file'[attempt'.w].emailsAnalyzedUntil = {attempt'.date})
     /\ \A i \in 1..Len(file) :
          file[i].emailsAnalyzedUntil # {}
            => /\ file'[i].emailsAnalyzedUntil # {}
               /\ Instant(file'[i].emailsAnalyzedUntil) >= Instant(file[i].emailsAnalyzedUntil)]_vars

\* The last updateAnalyzedUntil() did not persist: the file could not be
\* read, parsed or written, or holds no record of the watcher.
PersistFailed ==
  /\ attempt.w # 0
  /\ (attempt.io # "ok" \/ findIndex(file, attempt.w) = 0)

\* C18: when persisting fails, the watcher's in-memory emailsAnalyzedUntil
\* is still advanced to the new instant.
C18_MemoryAdvancesOnFailure ==
  PersistFailed => emailsAnalyzedUntil[attempt.w] = {attempt.date}

\* C19: updateAnalyzedUntil() of one watcher changes no record of the file
\* but that watcher's own.
C19_OnlyOwnEntry ==
  [][\A j \in 1..Len(file) : file'[j] # file[j] => attempt'.w = j]_vars

Classified(e) == e.result \in {"left", "moved", "moveError"}

\* C12: a live batch in which the classification or the relocation of a
\* message failed still goes through every message of the batch.
C12_LiveBatchSurvivesErrors ==
  (unit.kind = "live" /\ unit.pc \in {"done", "aborted"} /\ unit.failed)
    => unit.i = unit.n

\* C13: a backfill scan in which the parsing, the classification or the
\* relocation of a message failed still goes through every message of the
\* search result, and when it ends the watcher's emailsAnalyzedUntil is the
\* present instant.
C13_ScanSurvivesErrors ==
  [][(unit.pc = "bfLoop" /\ unit'.pc # "bfLoop" /\ unit'.failed)
       => /\ unit'.i = unit'.n
          /\ unit'.pc = "done"
          /\ emailsAnalyzedUntil'[1] = {now}]_vars

\* C15: in a backfill scan whose lower bound W was captured from
\* emailsAnalyzedUntil, a parsed message dated before W is not classified
\* and one dated at or after W is; when emailsAnalyzedUntil was absent every
\* parsed message is classified.
C15_LowerBoundFilter ==
  (unit.kind = "backfill" /\ unit.last.result \notin {"none", "noBody", "parseError"})
    => IF unit.absent
       THEN Classified(unit.last)
       ELSE /\ (unit.last.date < unit.lowerBound => unit.last.result = "old")
            /\ (unit.last.date >= unit.lowerBound => Classified(unit.last))

AllBoxes == flattenBoxes(boxes)
ExactCandidates ==
  {k \in 1..Len(candidates) : exactMatches(AllBoxes, candidates[k]) # {}}
TrailingCandidates ==
  {k \in 1..Len(candidates) : trailingMatches(AllBoxes, candidates[k]) # {}}
IsBox(path) == \E i \in 1..Len(AllBoxes) : AllBoxes[i] = path

\* C17: the target is the folder whose full path equals, case-insensitively,
\* the first candidate that equals any full path; only if no candidate
\* equals a full path, a folder whose trailing segment matches a candidate;
\* and "Spam" if nothing matches.
C17_ExactBeforeTrailing ==
  target # <<>> =>
    IF ExactCandidates # {}
    THEN IsBox(target) /\ lowerPath(target) = candidates[Min(ExactCandidates)]
    ELSE IF TrailingCandidates # {}
    THEN IsBox(target) /\ \E k \in TrailingCandidates : endsWith(target, candidates[k])
    ELSE target = <<"Spam">>

\* C17 amended: the target is decided by the first candidate of the
\* priority list that matches some folder either exactly or by trailing
\* segment; for that candidate a folder whose full path equals it is
\* preferred to one that ends with it; "Spam" if no candidate matches.
C17_CandidateByCandidate ==
  target # <<>> =>
    IF ExactCandidates \cup TrailingCandidates = {}
    THEN target = <<"Spam">>
    ELSE LET k == Min(ExactCandidates \cup TrailingCandidates) IN
         /\ IsBox(target)
         /\ IF k \in ExactCandidates
            THEN lowerPath(target) = candidates[k]
            ELSE endsWith(target, candidates[k])

\* C17 witness: INBOX/Spam was chosen although Junk exists at the top level.
C17_Witness ==
  target = <<"INBOX", "Spam">> /\ IsBox(<<"Junk">>)

\* C21: at most one keepalive interval is active in every reachable state,
\* it is the one the watcher holds in keepAliveTimer, and none is active
\* unless a connection handle is held.
C21_OneKeepAlive ==
  /\ Cardinality(intervals) <= 1
  /\ intervals \subseteq {keepAliveTimer}
  /\ (intervals # {} => connection # 0)

\* C21 witness: two open connections carry the listeners, INBOX is open on
\* the one held, and one interval is active: the one in keepAliveTimer.
C21_Witness ==
  /\ Cardinality(Sessions) = 2
  /\ keepAliveTimer # 0 /\ intervals = {keepAliveTimer}
  /\ boxOpen

\* C22: no rejection raised while a 'mail' notification is handled leaves
\* the handler, a rejection of the mailbox-total query at its start
\* included: the invocation never ends by an escaped rejection.
C22_NoErrorEscapes == unit.pc # "escaped"

\* C23: the watermark, in memory and in the file, changes only in the step
\* that ends a unit whose loop went through every message fetched, and a
\* unit that finds the connection handle released when onNewMails() or
\* processHistoricalEmails() begins, and so fetches nothing, leaves it
\* unchanged.
C23_WatermarkAfterWholeUnit ==
  [][/\ (emailsAnalyzedUntil' # emailsAnalyzedUntil \/ file' # file)
          => (unit'.pc = "done" /\ unit'.i = unit'.n)
     /\ (unit.pc = "total" /\ connection = 0 /\ unit'.pc # "total")
          => (emailsAnalyzedUntil' = emailsAnalyzedUntil /\ file' = file)]_vars

ScanPcs == {"bfOpen", "bfSearch", "bfLoop"}

\* C24: isBackfilling is true only while the scan of the followed
\* invocation is in progress, so it is false from the step that ends the
\* scan, whether the scan completed, openBox or search rejected, the handle
\* was gone or writing the watermark failed; and an initial announcement
\* handled afterwards on a held connection starts a scan.
C24_FlagClearedAtScanEnd ==
  [][/\ (isBackfilling' => unit'.pc \in ScanPcs)
     /\ (unit.pc = "total" /\ unit'.kind = "backfill" /\ connection # 0)
          => (unit'.pc = "bfOpen" /\ isBackfilling')]_vars

\* C24 witness: a second scan has begun on the connection after the first
\* one ended.
C24_Witness ==
  /\ scans = 2
  /\ unit.kind = "backfill" /\ unit.pc = "bfOpen"
  /\ isBackfilling

Exhausted == reconnectAttempts >= maxReconnectAttempts

\* C25: a watcher that was started and is not stopped never sits without a
\* live connection, with attempts left, and with nothing on the way to one:
\* no reconnect timer armed, no reconnect attempt and no startWatching() in
\* progress.
C25_NeverStranded ==
  (isWatching /\ ~Live /\ StartsRunning = 0)
    => (TimerPending \/ TimerRunning \/ Exhausted)

ReconnectInFlight == TimerPending \/ TimerRunning

\* C26: a keepalive tick issues its openBox only on a held connection in
\* the authenticated state; when that openBox rejects while a connection
\* handle is held and no reconnect timer is armed or running, the handle is
\* released, the keepalive stopped, the listeners detached and the
\* transport ended, and a reconnect timer is armed while attempts remain, as
\* on a transport error.
C26_KeepAliveFailureReconnects ==
  [][/\ (kaPending' > kaPending
          => (connection # 0 /\ connState[connection] = "authenticated"))
     /\ (KeepAliveFailed /\ connection # 0 /\ ~ReconnectInFlight
          => /\ connection' = 0
             /\ keepAliveTimer' = 0 /\ intervals' = {}
             /\ ~listeners'[connection]
             /\ connState'[connection] # "authenticated"
             /\ IF reconnectAttempts < maxReconnectAttempts
                THEN /\ isReconnecting'
                     /\ reconnectAttempts' = reconnectAttempts + 1
                     /\ reconnectTimer' # 0
                     /\ timer'[reconnectTimer'].pc = "armed"
                ELSE timer' = timer /\ reconnectAttempts' = reconnectAttempts)]_vars

\* C27: isReconnecting is true only while a reconnect timer is armed or its
\* callback is in progress, in every reachable state, after stopWatching()
\* and a later startWatching() included.
C27_FlagMeansInFlight == isReconnecting => ReconnectInFlight

====
